---- MODULE Spec2Model ----
(***************************************************************************)
(* Model of the sitemap visualization tool: the categorizer                *)
(* (categorize_urls.py), the renderer (visualize_urls.py) and the          *)
(* extractor (extract_urls.py).                                            *)
(*                                                                         *)
(* Python strings are modelled as sequences of one-character strings, so   *)
(* that str.split, slicing and '-'.join are computed, not assumed.         *)
(*                                                                         *)
(* Library behaviour the scripts rely on:                                  *)
(*  - DataFrame.sort_values on one column runs kind='quicksort', whose     *)
(*    order of equal keys is unspecified (numpy keeps it only for short    *)
(*    arrays); on several columns it runs a stable lexsort.  The model     *)
(*    takes every order an unstable sort may return.                       *)
(*  - graphviz writes a name bare when it is a DOT identifier and between  *)
(*    double quotes otherwise; add_branch reads the node names back from   *)
(*    the first quoted string of each statement.                           *)
(*  - glob.glob lists a directory in the order of the file system.         *)
(*  - requests.get raises on an unreachable location; nothing catches it.  *)
(***************************************************************************)
EXTENDS Integers, Sequences, FiniteSets, TLC

VARIABLES
    \* categorize_urls.py
    sitemap_urls,      \* the list read from sitemap_urls.dat
    depth,             \* categorization_depth
    sitemap_layers,    \* the dataframe returned by peel_layers
    pc_cat,            \* "idle" | "start" | "done"
    \* visualize_urls.py
    df,                \* the dataframe passed to make_sitemap_graph
    graph_depth,       \* the depth requested (--depth)
    limit,             \* the branch limit (--limit)
    layers,            \* make_sitemap_graph's local layers, after the check
    warned,            \* the "only %d layers available" message was printed
    body,              \* f.body: the node and edge statements, in order
    i,                 \* the layer of the outer loop
    j,                 \* the position of the inner loop in nodes
    pc_viz,            \* "idle" | "start" | "first" | "loop" | "done" | "error"
    \* extract_urls.py
    sitemap_url,       \* --url
    sitemap_is_index,  \* not --not_index
    sitemap_is_gzip,   \* --gzip
    index_locs,        \* the <loc> values of the index document at sitemap_url
    unreachable,       \* the locations requests.get raises on, this run
    gzip_dir,          \* the files of gzip-sitemaps/: name -> <loc> values
    urls,              \* the child locations kept from the index
    pos,               \* the position of the running loop
    all_sitemaps,      \* glob.glob('gzip-sitemaps/*.gz')
    found_urls,        \* main's and the loops' sitemap_urls accumulator
    out_file,          \* sitemap_urls.dat
    runs,              \* the number of runs of the script so far
    pc_ext             \* "idle" | "index" | "single" | "children" | "download"
                       \* | "glob" | "parse" | "write" | "done" | "aborted"

catVars == <<sitemap_urls, depth, sitemap_layers, pc_cat>>
vizVars == <<df, graph_depth, limit, layers, warned, body, i, j, pc_viz>>
extVars == <<sitemap_url, sitemap_is_index, sitemap_is_gzip, index_locs,
             unreachable, gzip_dir, urls, pos, all_sitemaps, found_urls,
             out_file, runs, pc_ext>>
vars == <<catVars, vizVars, extVars>>

----------------------------------------------------------------------------
(* Bounds *)

MaxUrls == 3
MaxDepth == 2
MaxUrlLen == 4
MaxRows == 3
MaxLimit == 2
MaxGraphDepth == 2
MaxChildren == 2
MaxRuns == 2

----------------------------------------------------------------------------
(* Python string primitives *)

\* Code points of the characters used, for Python's string comparison.
Ord(c) ==
    CASE c = " " -> 32
      [] c = "(" -> 40
      [] c = ")" -> 41
      [] c = "-" -> 45
      [] c = "." -> 46
      [] c = "/" -> 47
      [] c = "a" -> 97
      [] c = "b" -> 98
      [] c = "c" -> 99
      [] c = "g" -> 103
      [] c = "l" -> 108
      [] c = "o" -> 111
      [] c = "s" -> 115
      [] c = "u" -> 117
      [] c = "v" -> 118
      [] c = "x" -> 120
      [] c = "y" -> 121
      [] c = "z" -> 122

RECURSIVE StrLess(_, _)
\* s < t for Python str
StrLess(s, t) ==
    IF t = <<>> THEN FALSE
    ELSE IF s = <<>> THEN TRUE
    ELSE IF Ord(Head(s)) # Ord(Head(t)) THEN Ord(Head(s)) < Ord(Head(t))
    ELSE StrLess(Tail(s), Tail(t))

\* Index of the leftmost occurrence of sep in s, 0 when there is none.
Find(s, sep) ==
    LET hits == {p \in 1..(Len(s) - Len(sep) + 1) :
                    SubSeq(s, p, p + Len(sep) - 1) = sep}
    IN IF hits = {} THEN 0 ELSE CHOOSE p \in hits : \A q \in hits : p <= q

RECURSIVE Split(_, _)
\* str.split(sep) for a non-empty sep
Split(s, sep) ==
    LET p == Find(s, sep)
    IN IF p = 0 THEN <<s>>
       ELSE <<SubSeq(s, 1, p - 1)>> \o Split(SubSeq(s, p + Len(sep), Len(s)), sep)

Last(seq) == seq[Len(seq)]

Range(seq) == {seq[n] : n \in DOMAIN seq}

Min(a, b) == IF a <= b THEN a ELSE b

RECURSIVE SeqsUpTo(_, _)
\* the sequences over S of length at most n
SeqsUpTo(S, n) ==
    IF n = 0 THEN {<<>>}
    ELSE LET shorter == SeqsUpTo(S, n - 1)
         IN shorter \cup {Append(s, x) : s \in {q \in shorter : Len(q) = n - 1}, x \in S}

Slash == <<"/">>
SlashSlash == <<"/", "/">>

----------------------------------------------------------------------------
(* categorize_urls.py: peel_layers *)

\* url.split('//')[-1].split('/')[0]
Base(url) == Split(Last(Split(url, SlashSlash)), Slash)[1]

\* try: url.split(base)[-1].split('/')[layer]  except: ''
\* (str.split raises ValueError on an empty separator; an index past the
\* end raises IndexError; the bare except turns both into '')
PageLayer(url, base, layer) ==
    IF base = <<>> THEN <<>>
    ELSE LET pieces == Split(Last(Split(url, base)), Slash)
         IN IF layer + 1 <= Len(pieces) THEN pieces[layer + 1] ELSE <<>>

\* The row of columns 0..layers that one URL contributes.
UrlRow(url, nlayers) ==
    [c \in 1..(nlayers + 1) |->
        IF c = 1 THEN Base(url) ELSE PageLayer(url, Base(url), c - 1)]

RECURSIVE TupleLess(_, _, _)
\* lexicographic r < s on the first n columns
TupleLess(r, s, n) ==
    IF n = 0 THEN FALSE
    ELSE IF r[1] # s[1] THEN StrLess(r[1], s[1])
    ELSE TupleLess(Tail(r), Tail(s), n - 1)

\* A groupby that counts the distinct URLs of a group (nunique, not count).
GroupCountDistinct(list, nlayers) ==
    LET keys == {UrlRow(list[n], nlayers) : n \in DOMAIN list}
    IN {[segs |-> k,
         counts |-> Cardinality({list[n] : n \in
                        {m \in DOMAIN list : UrlRow(list[m], nlayers) = k}})]
        : k \in keys}

\* groupby(columns 0..layers)[0].count(): one row per distinct tuple
GroupCount(list, nlayers) ==
    LET keys == {UrlRow(list[n], nlayers) : n \in DOMAIN list}
    IN {[segs |-> k,
         counts |-> Cardinality({n \in DOMAIN list : UrlRow(list[n], nlayers) = k})]
        : k \in keys}

RECURSIVE Orders(_)
\* All orders of a finite set of rows.
Orders(rows) ==
    IF rows = {} THEN {<<>>}
    ELSE UNION {{<<r>> \o t : t \in Orders(rows \ {r})} : r \in rows}

\* .sort_values('counts', ascending=False): one column, kind='quicksort',
\* which leaves the order of the rows with equal counts unspecified
SortByCounts(t) ==
    {p \in Orders(Range(t)) :
        \A a \in 1..(Len(p) - 1) : p[a].counts >= p[a + 1].counts}

RECURSIVE InsertByLeading(_, _, _)
\* t with row r put behind every row whose leading columns are not larger
InsertByLeading(t, r, nlayers) ==
    IF t # <<>> /\ TupleLess(r.segs, t[Len(t)].segs, nlayers)
    THEN Append(InsertByLeading(SubSeq(t, 1, Len(t) - 1), r, nlayers), t[Len(t)])
    ELSE Append(t, r)

RECURSIVE StableByLeading(_, _)
\* the stable sort of t by columns 0..nlayers-1
StableByLeading(t, nlayers) ==
    IF t = <<>> THEN <<>>
    ELSE InsertByLeading(StableByLeading(SubSeq(t, 1, Len(t) - 1), nlayers),
                         t[Len(t)], nlayers)

\* .sort_values(list(range(0, layers)), ascending=True): several columns
\* go through the stable lexsort; a single column goes through
\* kind='quicksort', which leaves the order of the rows with equal keys
\* unspecified; no column leaves the frame as it is
SortByLeading(t, nlayers) ==
    IF nlayers = 0 THEN {t}
    ELSE IF nlayers = 1
    THEN {p \in Orders(Range(t)) :
             \A a \in 1..(Len(p) - 1) : ~TupleLess(p[a + 1].segs, p[a].segs, 1)}
    ELSE {StableByLeading(t, nlayers)}

RECURSIVE ByKey(_, _)
\* The grouped rows in the order groupby leaves them: ascending by key.
ByKey(grouped, ncols) ==
    IF grouped = {} THEN <<>>
    ELSE LET first == CHOOSE r \in grouped :
                         \A q \in grouped : ~TupleLess(q.segs, r.segs, ncols)
         IN <<first>> \o ByKey(grouped \ {first}, ncols)

\* .sort_values('counts', ...).sort_values(list(range(0, layers)), ...)
FrameOrders(grouped, nlayers) ==
    UNION {SortByLeading(t1, nlayers) :
              t1 \in SortByCounts(ByKey(grouped, nlayers + 1))}

\* Every dataframe peel_layers can return for the given arguments.
PeelLayersResults(list, nlayers) ==
    FrameOrders(GroupCount(list, nlayers), nlayers)

NoFrame == <<[segs |-> <<>>, counts |-> 0]>>

peel_layers ==
    /\ pc_cat = "start"
    /\ \E t \in PeelLayersResults(sitemap_urls, depth) :
          sitemap_layers' = t
    /\ pc_cat' = "done"
    /\ UNCHANGED <<sitemap_urls, depth, vizVars, extVars>>

----------------------------------------------------------------------------
(* visualize_urls.py: make_sitemap_graph *)

\* The segment columns of the dataframe are '0'..str(AvailableLayers(t)).
AvailableLayers(t) == Len(t[1].segs) - 1

RECURSIVE FormatInt(_)
\* '{:,}'.format(n) for 0 <= n < 1000
FormatInt(n) ==
    LET digit == <<"0", "1", "2", "3", "4", "5", "6", "7", "8", "9">>
    IN IF n < 10 THEN <<digit[n + 1]>>
       ELSE FormatInt(n \div 10) \o <<digit[(n % 10) + 1]>>

\* '{} ({:,})'.format(name, counts)
HostLabel(name, counts) == name \o <<" ", "(">> \o FormatInt(counts) \o <<")">>

Letters == {"a", "b", "c", "g", "l", "o", "s", "u", "v", "x", "y", "z"}

\* graphviz writes an identifier bare when it is a DOT ID (letters, digits
\* and '_', not starting with a digit) and between double quotes otherwise.
Quoted(s) == s = <<>> \/ \E n \in DOMAIN s : s[n] \notin Letters

\* item.split('"')[1] for a statement of f.body that contains 'label':
\* the first double-quoted string of the line. A node statement is
\* name [label=...], an edge statement tail -> head [label=...].
FirstQuoted(item) ==
    IF item.kind = "node"
    THEN IF Quoted(item.name) THEN item.name ELSE item.label
    ELSE IF Quoted(item.tail) THEN item.tail ELSE item.head

\* node_names = [item.split('"')[1] for item in f.body if 'label' in item]
NodeNames(b) == {FirstQuoted(b[n]) : n \in DOMAIN b}

RECURSIVE Join(_)
\* '-'.join(['%s']*i) % tuple(k)
Join(k) ==
    IF Len(k) = 1 THEN k[1]
    ELSE Join(SubSeq(k, 1, Len(k) - 1)) \o <<"-">> \o k[Len(k)]

RECURSIVE DropDuplicates(_)
\* the distinct elements of a sequence, in the order of first appearance
DropDuplicates(q) ==
    IF q = <<>> THEN <<>>
    ELSE LET front == DropDuplicates(SubSeq(q, 1, Len(q) - 1))
             x == q[Len(q)]
         IN IF \E n \in DOMAIN front : front[n] = x THEN front
            ELSE Append(front, x)

\* nodes = df[cols].drop_duplicates().values, cols = '0'..str(layer-1)
Nodes(t, layer) == DropDuplicates([n \in DOMAIN t |-> SubSeq(t[n].segs, 1, layer)])

RECURSIVE SumOver(_, _)
SumOver(t, rows) ==
    IF rows = {} THEN 0
    ELSE LET n == CHOOSE m \in rows : TRUE
         IN t[n].counts + SumOver(t, rows \ {n})

\* df[mask].groupby([str(layer)])['counts'].sum(): mask selects the rows
\* whose columns 0..layer-1 equal k; one row per value of column layer
BranchSums(t, k, layer) ==
    LET masked == {n \in DOMAIN t : SubSeq(t[n].segs, 1, layer) = k}
        names == {t[n].segs[layer + 1] : n \in masked}
    IN {[segs |-> <<nm>>,
         counts |-> SumOver(t, {n \in masked : t[n].segs[layer + 1] = nm})]
        : nm \in names}

\* ...reset_index().sort_values(['counts'], ascending=False)
BranchData(t, k, layer) == SortByCounts(ByKey(BranchSums(t, k, layer), 1))

\* list(zip(names, vals))[:limit] with one element too many
TruncateOneMore(data, lim) == SubSeq(data, 1, Min(lim + 1, Len(data)))

\* list(zip(names, vals))[:limit]
Truncate(data, lim) == SubSeq(data, 1, Min(lim, Len(data)))

RECURSIVE BranchStatements(_, _, _)
\* for name, val in ...: f.node(...); f.edge(...)
\* (tup and ptup record the segment tuple a statement was emitted for; they
\* are not part of the DOT text)
BranchStatements(kept, k, connect_to) ==
    IF kept = <<>> THEN <<>>
    ELSE LET name == Head(kept).segs[1]
             child == connect_to \o <<"-">> \o name
         IN << [kind |-> "node", name |-> child, label |-> name,
                tup |-> Append(k, name)],
               [kind |-> "edge", tail |-> connect_to, head |-> child,
                label |-> FormatInt(Head(kept).counts),
                ptup |-> k, tup |-> Append(k, name)] >>
            \o BranchStatements(Tail(kept), k, connect_to)

\* add_branch(f, names, vals, limit, connect_to)
AddBranch(b, data, lim, k) ==
    LET connect_to == Join(k)
    IN IF connect_to # <<>> /\ connect_to \in NodeNames(b)
       THEN b \o BranchStatements(Truncate(data, lim), k, connect_to)
       ELSE b

\* if layers > len(df) - 1: layers = len(df)-1; print(...)
check_layers ==
    /\ pc_viz = "start"
    /\ IF graph_depth > Len(df) - 1
       THEN layers' = Len(df) - 1 /\ warned' = TRUE
       ELSE layers' = graph_depth /\ warned' = FALSE
    /\ pc_viz' = "first"
    /\ UNCHANGED <<df, graph_depth, limit, body, i, j, catVars, extVars>>

\* df.groupby(['0'])['counts'].sum() as rows of one column
HostSums(t) ==
    {[segs |-> <<h>>,
      counts |-> SumOver(t, {n \in DOMAIN t : t[n].segs[1] = h})]
     : h \in {t[n].segs[1] : n \in DOMAIN t}}

\* Add the first layer of nodes; return f if layers == 0
add_first_layer ==
    /\ pc_viz = "first"
    /\ \E hosts \in SortByCounts(ByKey(HostSums(df), 1)) :
          body' = body \o [n \in DOMAIN hosts |->
                      [kind |-> "node", name |-> hosts[n].segs[1],
                       label |-> HostLabel(hosts[n].segs[1], hosts[n].counts),
                       tup |-> hosts[n].segs]]
    /\ IF layers >= 1
       THEN pc_viz' = "loop" /\ i' = 1 /\ j' = 1
       ELSE pc_viz' = "done" /\ UNCHANGED <<i, j>>
    /\ UNCHANGED <<df, graph_depth, limit, layers, warned, catVars, extVars>>

\* One pass of the inner loop: the branch under nodes[j] of layer i.
add_layer_branch ==
    /\ pc_viz = "loop"
    /\ i <= AvailableLayers(df)
    /\ LET nodes == Nodes(df, i)
           k == nodes[j]
       IN /\ \E data \in BranchData(df, k, i) :
                body' = AddBranch(body, data, limit, k)
          /\ IF j < Len(nodes) THEN j' = j + 1 /\ UNCHANGED <<i, pc_viz>>
             ELSE IF i < layers THEN i' = i + 1 /\ j' = 1 /\ UNCHANGED pc_viz
             ELSE pc_viz' = "done" /\ UNCHANGED <<i, j>>
    /\ UNCHANGED <<df, graph_depth, limit, layers, warned, catVars, extVars>>

\* groupby([str(i)]) on a dataframe that has no column str(i): KeyError
key_error ==
    /\ pc_viz = "loop"
    /\ i > AvailableLayers(df)
    /\ pc_viz' = "error"
    /\ UNCHANGED <<df, graph_depth, limit, layers, warned, body, i, j, catVars, extVars>>

----------------------------------------------------------------------------
(* extract_urls.py *)

\* The documents of the site. An index document lists child locations; a
\* child document lists page URLs.
IndexUrl == <<"s", "/", "i">>
ChildA == <<"s", "/", "a", ".", "g", "z">>
ChildA2 == <<"v", "/", "a", ".", "g", "z">>
ChildB == <<"s", "/", "b", ".", "g", "z">>
ChildC == <<"s", "/", "c">>
ChildC2 == <<"v", "/", "c">>
Children == {ChildA, ChildA2, ChildB, ChildC, ChildC2}

\* The <loc> values of each child document.
Locs(u) ==
    CASE u = ChildA -> <<"p1">>
      [] u = ChildA2 -> <<"p2">>
      [] u = ChildB -> <<"p3", "p4">>
      [] u = ChildC -> <<"p5">>
      [] u = ChildC2 -> <<"p6", "p7">>

GzSuffix == <<".", "g", "z">>

\* u[-3:]
LastThree(u) == SubSeq(u, IF Len(u) > 3 THEN Len(u) - 2 ELSE 1, Len(u))

\* [u for u in urls if u[-3:] != '.gz'] / [... == '.gz']
NotGz(q) == SelectSeq(q, LAMBDA u : LastThree(u) # GzSuffix)
OnlyGz(q) == SelectSeq(q, LAMBDA u : LastThree(u) = GzSuffix)

\* url.split('/')[-1]
FileName(u) == Last(Split(u, Slash))

\* open('gzip-sitemaps/' + filename, 'wb').write(page.content)
WriteGz(dir, name, content) ==
    [f \in DOMAIN dir \cup {name} |-> IF f = name THEN content ELSE dir[f]]

NoFile == [exists |-> FALSE, lines |-> <<>>]
EmptyDir == [f \in {} |-> <<>>]

\* get_urls(sitemap_url) on the index document, in get_all_urls or
\* get_all_gzip_urls; an exception of requests.get ends the script
fetch_index ==
    /\ pc_ext = "index"
    /\ IF sitemap_url \in unreachable
       THEN pc_ext' = "aborted" /\ UNCHANGED <<urls, pos>>
       ELSE /\ urls' = IF sitemap_is_gzip THEN OnlyGz(index_locs)
                                            ELSE NotGz(index_locs)
            /\ pos' = 1
            /\ pc_ext' = IF sitemap_is_gzip
                         THEN (IF urls' = <<>> THEN "glob" ELSE "download")
                         ELSE (IF urls' = <<>> THEN "write" ELSE "children")
    /\ UNCHANGED <<sitemap_url, sitemap_is_index, sitemap_is_gzip, index_locs,
                   unreachable,
                   gzip_dir, all_sitemaps, found_urls, out_file, runs,
                   catVars, vizVars>>

\* get_all_urls: one pass of  for i, url in enumerate(urls)
fetch_child ==
    /\ pc_ext = "children"
    /\ IF urls[pos] \in unreachable
       THEN pc_ext' = "aborted" /\ UNCHANGED <<pos, found_urls>>
       ELSE /\ found_urls' = found_urls \o Locs(urls[pos])
            /\ pos' = pos + 1
            /\ pc_ext' = IF pos = Len(urls) THEN "write" ELSE "children"
    /\ UNCHANGED <<sitemap_url, sitemap_is_index, sitemap_is_gzip, index_locs,
                   unreachable,
                   gzip_dir, urls, all_sitemaps, out_file, runs,
                   catVars, vizVars>>

\* get_all_gzip_urls: one pass of the download loop
download_child ==
    /\ pc_ext = "download"
    /\ IF urls[pos] \in unreachable
       THEN pc_ext' = "aborted" /\ UNCHANGED <<pos, gzip_dir>>
       ELSE /\ gzip_dir' = WriteGz(gzip_dir, FileName(urls[pos]), Locs(urls[pos]))
            /\ pos' = pos + 1
            /\ pc_ext' = IF pos = Len(urls) THEN "glob" ELSE "download"
    /\ UNCHANGED <<sitemap_url, sitemap_is_index, sitemap_is_gzip, index_locs,
                   unreachable,
                   urls, all_sitemaps, found_urls, out_file, runs,
                   catVars, vizVars>>

\* all_sitemaps = glob.glob('gzip-sitemaps/*.gz'): every file of the
\* directory, in the arbitrary order the file system lists them
glob_sitemaps ==
    /\ pc_ext = "glob"
    /\ \E listing \in Orders({f \in DOMAIN gzip_dir : LastThree(f) = GzSuffix}) :
          /\ all_sitemaps' = listing
          /\ pc_ext' = IF listing = <<>> THEN "write" ELSE "parse"
    /\ pos' = 1
    /\ UNCHANGED <<sitemap_url, sitemap_is_index, sitemap_is_gzip, index_locs,
                   unreachable,
                   gzip_dir, urls, found_urls, out_file, runs,
                   catVars, vizVars>>

\* get_all_gzip_urls: one pass of  for i, f_ in enumerate(all_sitemaps)
parse_gzip ==
    /\ pc_ext = "parse"
    /\ found_urls' = found_urls \o gzip_dir[all_sitemaps[pos]]
    /\ pos' = pos + 1
    /\ pc_ext' = IF pos = Len(all_sitemaps) THEN "write" ELSE "parse"
    /\ UNCHANGED <<sitemap_url, sitemap_is_index, sitemap_is_gzip, index_locs,
                   unreachable,
                   gzip_dir, urls, all_sitemaps, out_file, runs,
                   catVars, vizVars>>

\* main, not sitemap_is_index: the document holds the page links itself
fetch_single ==
    /\ pc_ext = "single"
    /\ IF sitemap_url \in unreachable
       THEN pc_ext' = "aborted" /\ UNCHANGED <<gzip_dir, found_urls>>
       ELSE /\ gzip_dir' = IF sitemap_is_gzip
                           THEN WriteGz(gzip_dir, FileName(sitemap_url),
                                        Locs(sitemap_url))
                           ELSE gzip_dir
            /\ found_urls' = Locs(sitemap_url)
            /\ pc_ext' = "write"
    /\ UNCHANGED <<sitemap_url, sitemap_is_index, sitemap_is_gzip, index_locs,
                   unreachable,
                   urls, pos, all_sitemaps, out_file, runs, catVars, vizVars>>

\* The index documents: at most MaxChildren distinct child locations.
Indexes ==
    {q \in SeqsUpTo(Children, MaxChildren) :
        \A a, b \in DOMAIN q : a # b => q[a] # q[b]}

\* The arguments of one run of the script and the state of the network
\* during it: at most one location is unreachable.
StartRun(url, isIndex, isGzip, index, down) ==
    /\ sitemap_url' = url
    /\ sitemap_is_index' = isIndex
    /\ sitemap_is_gzip' = isGzip
    /\ index_locs' = index
    /\ unreachable' = down
    /\ urls' = <<>>
    /\ pos' = 0
    /\ all_sitemaps' = <<>>
    /\ found_urls' = <<>>
    /\ pc_ext' = IF isIndex THEN "index" ELSE "single"

\* The script is run again; gzip-sitemaps/ and sitemap_urls.dat are as the
\* earlier runs left them.
main_again ==
    /\ pc_ext \in {"done", "aborted"}
    /\ runs < MaxRuns
    /\ runs' = runs + 1
    /\ \E isGzip \in BOOLEAN :
          \/ \E index \in Indexes :
                \E down \in {{}} \cup {{u} : u \in {IndexUrl} \cup Range(index)} :
                    StartRun(IndexUrl, TRUE, isGzip, index, down)
          \/ \E url \in Children :
                \E down \in {{}, {url}} :
                    StartRun(url, FALSE, isGzip, <<>>, down)
    /\ UNCHANGED <<gzip_dir, out_file, catVars, vizVars>>

\* main: with open('sitemap_urls.dat', 'w') as f: ...
write_urls ==
    /\ pc_ext = "write"
    /\ out_file' = [exists |-> TRUE, lines |-> found_urls]
    /\ pc_ext' = "done"
    /\ UNCHANGED <<sitemap_url, sitemap_is_index, sitemap_is_gzip, index_locs,
                   unreachable,
                   gzip_dir, urls, pos, all_sitemaps, found_urls, runs,
                   catVars, vizVars>>

----------------------------------------------------------------------------
(* Inputs of the categorizer *)

PoolHosts == {<<"a">>, <<"b">>}
PoolPaths == {<<>>, <<"/", "x">>, <<"/", "y">>, <<"/", "x", "/", "y">>}
UrlPool == {SlashSlash \o h \o p : h \in PoolHosts, p \in PoolPaths}

\* The values of a script's variables while another script is modelled.
IdleCat ==
    /\ sitemap_urls = <<>>
    /\ depth = 0
    /\ sitemap_layers = NoFrame
    /\ pc_cat = "idle"

IdleViz ==
    /\ df = NoFrame
    /\ graph_depth = 0
    /\ limit = 0
    /\ layers = 0
    /\ warned = FALSE
    /\ body = <<>>
    /\ i = 0
    /\ j = 0
    /\ pc_viz = "idle"

IdleExt ==
    /\ sitemap_url = <<>>
    /\ sitemap_is_index = FALSE
    /\ sitemap_is_gzip = FALSE
    /\ index_locs = <<>>
    /\ unreachable = {}
    /\ gzip_dir = EmptyDir
    /\ urls = <<>>
    /\ pos = 0
    /\ all_sitemaps = <<>>
    /\ found_urls = <<>>
    /\ out_file = NoFile
    /\ runs = 0
    /\ pc_ext = "idle"

InitPeel ==
    /\ sitemap_urls \in SeqsUpTo(UrlPool, MaxUrls)
    /\ depth \in 0..MaxDepth
    /\ sitemap_layers = NoFrame
    /\ pc_cat = "start"
    /\ IdleViz
    /\ IdleExt

UrlAlphabet == {"a", "b", "/"}

\* One URL: a scheme separator, then a host character, then anything.
SchemeUrls ==
    {SlashSlash \o rest :
        rest \in {r \in SeqsUpTo(UrlAlphabet, MaxUrlLen) : r # <<>> /\ r[1] # "/"}}

InitSeg ==
    /\ sitemap_urls \in {<<u>> : u \in SchemeUrls}
    /\ depth \in 0..MaxDepth
    /\ sitemap_layers = NoFrame
    /\ pc_cat = "start"
    /\ IdleViz
    /\ IdleExt

NextCat == peel_layers

SpecPeel == InitPeel /\ [][NextCat]_vars
SpecSeg == InitSeg /\ [][NextCat]_vars

----------------------------------------------------------------------------
(* Inputs of the renderer *)

\* Host a.c with a first path segment '', 'x' or 'x-x' and deeper segments
\* '' or 'x'; host loc (a bare DOT identifier) with the segment 'x'.
VizHosts == {<<"a", ".", "c">>, <<"l", "o", "c">>}
VizSegs(h, col) ==
    IF h = <<"a", ".", "c">>
    THEN (IF col = 1 THEN {<<>>, <<"x">>, <<"x", "-", "x">>} ELSE {<<>>, <<"x">>})
    ELSE {<<"x">>}
VizCounts == {1, 2}
TableDepths == {0, 1, 2}

RECURSIVE SubsetsUpTo(_, _)
\* the subsets of S of at most n elements
SubsetsUpTo(S, n) ==
    IF n = 0 THEN {{}}
    ELSE LET smaller == SubsetsUpTo(S, n - 1)
         IN smaller \cup {s \cup {x} : s \in smaller, x \in S}

\* The segment tuples of arity n + 1.
VizTuples(n) ==
    UNION {{<<h>> \o t : t \in {q \in SeqsUpTo(VizSegs(h, 1), n) :
                                   /\ Len(q) = n
                                   /\ \A col \in 1..n : q[col] \in VizSegs(h, col)}}
           : h \in VizHosts}

\* The dataframes of categorization depth n: at most MaxRows rows with
\* pairwise distinct segment tuples, in an order peel_layers can leave.
VizFrames(n) ==
    UNION {UNION {FrameOrders({[segs |-> k, counts |-> c[k]] : k \in keys}, n) :
                     c \in [keys -> VizCounts]} :
              keys \in SubsetsUpTo(VizTuples(n), MaxRows) \ {{}}}

InitViz ==
    /\ df \in UNION {VizFrames(n) : n \in TableDepths}
    /\ graph_depth \in 0..MaxGraphDepth
    /\ limit \in 0..MaxLimit
    /\ layers = graph_depth
    /\ warned = FALSE
    /\ body = <<>>
    /\ i = 0
    /\ j = 0
    /\ pc_viz = "start"
    /\ IdleCat
    /\ IdleExt

NextViz ==
    \/ check_layers
    \/ add_first_layer
    \/ add_layer_branch
    \/ key_error

SpecViz == InitViz /\ [][NextViz]_vars

----------------------------------------------------------------------------
(* Inputs of the extractor *)

\* The first run: an empty download directory and no output file.
InitExt ==
    /\ sitemap_is_gzip \in BOOLEAN
    /\ sitemap_is_index \in BOOLEAN
    /\ IF sitemap_is_index
       THEN /\ sitemap_url = IndexUrl
            /\ index_locs \in Indexes
            /\ unreachable \in {{}} \cup {{u} : u \in {IndexUrl} \cup Range(index_locs)}
            /\ pc_ext = "index"
       ELSE /\ sitemap_url \in Children
            /\ index_locs = <<>>
            /\ unreachable \in {{}, {sitemap_url}}
            /\ pc_ext = "single"
    /\ gzip_dir = EmptyDir
    /\ urls = <<>>
    /\ pos = 0
    /\ all_sitemaps = <<>>
    /\ found_urls = <<>>
    /\ out_file = NoFile
    /\ runs = 1
    /\ IdleCat
    /\ IdleViz

NextExt ==
    \/ fetch_index
    \/ fetch_child
    \/ download_child
    \/ glob_sitemaps
    \/ parse_gzip
    \/ fetch_single
    \/ write_urls
    \/ main_again

SpecExt == InitExt /\ [][NextExt]_vars

----------------------------------------------------------------------------
(* Properties of the categorizer *)

RECURSIVE SumCounts(_)
SumCounts(t) == IF t = <<>> THEN 0 ELSE Head(t).counts + SumCounts(Tail(t))

CatDone == pc_cat = "done"

\* C1: the rows of the returned table are pairwise distinct in their segment
\* tuple, each row's count is the number of input URLs that map to exactly
\* that tuple, and the counts add up to the number of input URLs.
C1_GroupCounts ==
    CatDone =>
        /\ \A a, b \in DOMAIN sitemap_layers :
              a # b => sitemap_layers[a].segs # sitemap_layers[b].segs
        /\ \A a \in DOMAIN sitemap_layers :
              /\ Len(sitemap_layers[a].segs) = depth + 1
              /\ sitemap_layers[a].counts =
                    Cardinality({n \in DOMAIN sitemap_urls :
                        UrlRow(sitemap_urls[n], depth) = sitemap_layers[a].segs})
        /\ SumCounts(sitemap_layers) = Len(sitemap_urls)

\* C1 witness: a table of several rows, one of them counting several URLs.
C1_Witness ==
    /\ CatDone
    /\ Len(sitemap_layers) >= 2
    /\ \E a \in DOMAIN sitemap_layers : sitemap_layers[a].counts >= 2

\* C2: for depth >= 1 the rows are in ascending lexicographic order of
\* columns 0..depth-1, and of two adjacent rows that share those columns the
\* earlier one has the larger or equal count.
C2_SortOrder ==
    (CatDone /\ depth >= 1) =>
        \A a \in 1..(Len(sitemap_layers) - 1) :
            LET r == sitemap_layers[a]
                s == sitemap_layers[a + 1]
            IN /\ ~TupleLess(s.segs, r.segs, depth)
               /\ (SubSeq(r.segs, 1, depth) = SubSeq(s.segs, 1, depth))
                     => r.counts >= s.counts

\* The portion of url that follows the first occurrence of sep.
AfterFirst(url, sep) ==
    LET p == Find(url, sep)
    IN IF p = 0 THEN url ELSE SubSeq(url, p + Len(sep), Len(url))

\* The n-th '/'-separated piece (counted from 0) of s, '' when there is none.
Piece(s, n) ==
    LET pieces == Split(s, Slash)
    IN IF n + 1 <= Len(pieces) THEN pieces[n + 1] ELSE <<>>

\* C3: column i (1..depth) of a URL's row is the i-th '/'-separated piece of
\* what follows the first occurrence of the host in the URL, and '' when
\* that position does not exist.  Stated for the URLs whose recorded host is
\* not empty, where "the first occurrence of the host" is unambiguous.
C3_SegmentsAfterFirstHost ==
    (CatDone /\ Len(sitemap_urls) = 1 /\ sitemap_layers[1].segs[1] # <<>>) =>
        \A c \in 1..depth :
            sitemap_layers[1].segs[c + 1] =
                Piece(AfterFirst(sitemap_urls[1], sitemap_layers[1].segs[1]), c)

\* C4: for a URL with a scheme separator, column 0 is what lies between the
\* first '//' and the first '/' after it.
C4_HostAfterScheme ==
    (CatDone /\ Len(sitemap_urls) = 1 /\ Find(sitemap_urls[1], SlashSlash) # 0) =>
        sitemap_layers[1].segs[1] =
            Piece(AfterFirst(sitemap_urls[1], SlashSlash), 0)
----------------------------------------------------------------------------
(* Properties of the renderer *)

VizEnded == pc_viz \in {"done", "error"}

NodeStmts == {n \in DOMAIN body : body[n].kind = "node"}
EdgeStmts == {n \in DOMAIN body : body[n].kind = "edge"}

\* C5: the graph is built for min(depth, n) layers, n being the number of
\* segment columns after the host: a larger request is clamped to n with a
\* warning and completes without error, a request of at most n is kept.
C5_ClampToColumns ==
    VizEnded =>
        /\ pc_viz = "done"
        /\ layers = Min(graph_depth, AvailableLayers(df))
        /\ warned <=> graph_depth > AvailableLayers(df)

\* The edge statements emitted by the call of add_branch for parent tuple k.
CreatedUnder(k) == {n \in EdgeStmts : body[n].ptup = k}

C7_ParentTupleCreated ==
    \A n \in EdgeStmts :
        \E m \in NodeStmts : body[m].tup = body[n].ptup

\* C10: the graph is a forest rooted at the hosts: distinct tuples have
\* distinct node identifiers, a host node has no incoming edge, and every
\* other node has exactly one incoming edge, from its parent prefix's node.
C10_Forest ==
    /\ \A m1, m2 \in NodeStmts :
          body[m1].tup # body[m2].tup => body[m1].name # body[m2].name
    /\ \A m \in NodeStmts :
          LET incoming == {n \in EdgeStmts : body[n].head = body[m].name}
          IN IF Len(body[m].tup) = 1 THEN incoming = {}
             ELSE /\ Cardinality(incoming) = 1
                  /\ \A n \in incoming : body[n].ptup = 
                        SubSeq(body[m].tup, 1, Len(body[m].tup) - 1)
----------------------------------------------------------------------------
(* Properties of the extractor *)

ExtEnded == pc_ext \in {"done", "aborted"}

\* The children of the index that the mode of the run keeps.
KeptChildren == IF sitemap_is_gzip THEN OnlyGz(index_locs) ELSE NotGz(index_locs)

RECURSIVE ConcatLocs(_)
ConcatLocs(q) == IF q = <<>> THEN <<>> ELSE Locs(Head(q)) \o ConcatLocs(Tail(q))

\* C8: in index mode a failure on one child does not abort the run: the
\* URLs of every child that succeeds are written to the output file; a
\* failure on the root document is fatal.
C8_ChildFailureTolerated ==
    (ExtEnded /\ sitemap_is_index) =>
        IF sitemap_url \in unreachable
        THEN pc_ext = "aborted"
        ELSE /\ pc_ext = "done"
             /\ out_file.exists
             /\ \A u \in Range(KeptChildren) \ unreachable :
                   Range(Locs(u)) \subseteq Range(out_file.lines)

\* C9: in compressed index mode, after any sequence of runs, the URLs
\* returned are exactly the concatenation of the <loc> values of the '.gz'
\* children of the current index, in the order of the index.
C9_GzipConcatenation ==
    (pc_ext \in {"write", "done"} /\ sitemap_is_index /\ sitemap_is_gzip) =>
        found_urls = ConcatLocs(KeptChildren)

====
